---------------------------- MODULE Spec2Model ----------------------------
(***************************************************************************)
(* Model of src/pipeline/7_get_data_train_upload.py: the three pipeline    *)
(* components (get_data, train_model, upload_model), the pipeline wiring   *)
(* and the submission routine under __main__.                              *)
(***************************************************************************)
EXTENDS Integers, Sequences, FiniteSets, TLC

(***************************************************************************)
(* Bounds of the model.                                                    *)
(***************************************************************************)
\* longest dataset (rows of a CSV file) a pipeline run downloads
MaxRows == 2
\* longest label vector handed to the class-weight computation on its own
MaxN == 50
\* longest KUBEFLOW_ENDPOINT string
MaxEndpointLen == 3

\* "no value": a missing environment variable (os.environ.get -> None), an
\* absent file, an unbound name
None == "None"

(***************************************************************************)
(* float64 arithmetic, as numpy performs it on the class weights.  A       *)
(* non-negative float is [m |-> bits, e |-> exponent] with value           *)
(* m * 2^e, m a natural number written least significant bit first, odd    *)
(* (or empty for zero) and at most Prec bits long.  Every operation is     *)
(* computed exactly and then rounded to nearest, ties to even.             *)
(***************************************************************************)
Prec == 53

\* bignum digits: the carries of an addition or a product run over digits of
\* DigitBits bits, not over single bits
DigitBits == 3 * 4

DigitBase == 2 ^ DigitBits

\* quotient digits computed below the binary point by a division
GuardDigits == (Prec + 30) \div DigitBits

MinInt(a, b) == IF a <= b THEN a ELSE b

MaxOf(S) == CHOOSE x \in S : \A z \in S : z <= x

MinOf(S) == CHOOSE x \in S : \A z \in S : x <= z

Zeros(k) == [i \in 1..k |-> 0]

Ones(k) == [i \in 1..k |-> 1]

StripHigh(b) ==
  LET S == {i \in 1..Len(b) : b[i] = 1}
  IN  IF S = {} THEN << >> ELSE SubSeq(b, 1, MaxOf(S))

\* the float of value b * 2^e, for at most Prec significant bits in b
Canon(b, e) ==
  LET S == {i \in 1..Len(b) : b[i] = 1}
  IN  IF S = {} THEN [m |-> << >>, e |-> 0]
      ELSE [m |-> SubSeq(b, MinOf(S), MaxOf(S)), e |-> e + MinOf(S) - 1]

BitsOfNat(n) == StripHigh([i \in 1..31 |-> (n \div 2 ^ (i - 1)) % 2])

IncBits(b) ==
  LET Z == {i \in 1..Len(b) : b[i] = 0}
  IN  IF Z = {} THEN Zeros(Len(b)) \o <<1>>
      ELSE [i \in 1..Len(b) |->
              IF i < MinOf(Z) THEN 0 ELSE IF i = MinOf(Z) THEN 1 ELSE b[i]]

\* round the exact value b * 2^e to Prec significant bits, ties to even
RoundBits(b0, e) ==
  LET b == StripHigh(b0)
      L == Len(b)
  IN  IF L <= Prec THEN Canon(b, e)
      ELSE LET k      == L - Prec
               kept   == SubSeq(b, k + 1, L)
               sticky == \E i \in 1..(k - 1) : b[i] = 1
               up     == b[k] = 1 /\ (sticky \/ kept[1] = 1)
           IN  Canon(IF up THEN IncBits(kept) ELSE kept, e + k)

RECURSIVE NatOfBits(_)
NatOfBits(b) == IF b = << >> THEN 0 ELSE Head(b) + 2 * NatOfBits(Tail(b))

DigitsOfBits(b) ==
  [j \in 1..((Len(b) + DigitBits - 1) \div DigitBits) |->
     NatOfBits(SubSeq(b, (j - 1) * DigitBits + 1, MinInt(j * DigitBits, Len(b))))]

BitsOfDigits(ds) ==
  [i \in 1..(DigitBits * Len(ds)) |->
     (ds[((i - 1) \div DigitBits) + 1] \div 2 ^ ((i - 1) % DigitBits)) % 2]

RECURSIVE MulDigits(_, _, _)
MulDigits(ds, c, carry) ==
  IF ds = << >> THEN <<carry % DigitBase, carry \div DigitBase>>
  ELSE LET t == Head(ds) * c + carry
       IN  <<t % DigitBase>> \o MulDigits(Tail(ds), c, t \div DigitBase)

\* the bits of b * c, for a natural c < 2^18
MulBitsSmall(b, c) == StripHigh(BitsOfDigits(MulDigits(DigitsOfBits(b), c, 0)))

RECURSIVE AddDigits(_, _, _)
AddDigits(a, b, carry) ==
  IF a = << >> /\ b = << >> THEN <<carry>>
  ELSE LET x == IF a = << >> THEN 0 ELSE Head(a)
           y == IF b = << >> THEN 0 ELSE Head(b)
           t == x + y + carry
       IN  <<t % DigitBase>> \o AddDigits(IF a = << >> THEN a ELSE Tail(a),
                                          IF b = << >> THEN b ELSE Tail(b),
                                          t \div DigitBase)

AddBits(a, b) == StripHigh(BitsOfDigits(AddDigits(DigitsOfBits(a), DigitsOfBits(b), 0)))

\* the bits of x at exponent e <= x.e
AlignTo(x, e) == IF x.m = << >> THEN << >> ELSE Zeros(x.e - e) \o x.m

CommonExp(x, y) ==
  IF x.m = << >> THEN y.e ELSE IF y.m = << >> THEN x.e ELSE MinInt(x.e, y.e)

FloatOfNat(n) == RoundBits(BitsOfNat(n), 0)

\* x + y in float64
FAdd(x, y) ==
  RoundBits(AddBits(AlignTo(x, CommonExp(x, y)), AlignTo(y, CommonExp(x, y))),
            CommonExp(x, y))

\* x * c in float64, c a natural number (itself exactly a float64)
FMulNat(x, c) == RoundBits(MulBitsSmall(x.m, c), x.e)

\* long division: k more quotient digits of r/d, below the digits acc
RECURSIVE DivStep(_, _, _, _)
DivStep(r, d, k, acc) ==
  IF k = 0 THEN [q |-> acc, r |-> r]
  ELSE DivStep((r * DigitBase) % d, d, k - 1, <<(r * DigitBase) \div d>> \o acc)

\* fl(n / d) for naturals n and 0 < d < 2^18: the quotient to GuardDigits
\* digits below the point, a sticky bit for a non-zero remainder, one rounding
FDivNat(n, d) ==
  LET s == DivStep(n % d, d, GuardDigits, DigitsOfBits(BitsOfNat(n \div d)))
  IN  RoundBits((IF s.r = 0 THEN <<0>> ELSE <<1>>) \o BitsOfDigits(s.q),
                0 - (GuardDigits * DigitBits + 1))

RECURSIVE LeqDigitsFromTop(_, _, _)
LeqDigitsFromTop(a, b, i) ==
  IF i = 0 THEN TRUE
  ELSE IF a[i] # b[i] THEN a[i] < b[i] ELSE LeqDigitsFromTop(a, b, i - 1)

LeqBits(a, b) ==
  IF Len(a) # Len(b) THEN Len(a) < Len(b)
  ELSE LeqDigitsFromTop(DigitsOfBits(a), DigitsOfBits(b), Len(DigitsOfBits(a)))

\* x <= y, exactly
FLeq(x, y) == LeqBits(AlignTo(x, CommonExp(x, y)), AlignTo(y, CommonExp(x, y)))

\* the exact (unrounded) value n * k * 2^(-t) for a bit pattern k
ScaledNat(n, k, t) ==
  LET b == MulBitsSmall(k, n)
  IN  IF b = << >> THEN [m |-> << >>, e |-> 0]
      ELSE [m |-> b, e |-> 0 - t]

\* |x - n| <= n * 2^(-t), exactly: n*(2^t - 1) <= x * 2^t <= n*(2^t + 1)
WithinRelTol(x, n, t) ==
  /\ FLeq(ScaledNat(n, Ones(t), t), x)
  /\ FLeq(x, ScaledNat(n, <<1>> \o Zeros(t - 1) \o <<1>>, t))

(***************************************************************************)
(* train_model, lines 85-86: the class weights.                            *)
(***************************************************************************)
\* the fraud column holds 0 or 1
LabelValues == {0, 1}

RECURSIVE SortedSeqOf(_)
SortedSeqOf(S) ==
  IF S = {} THEN << >>
  ELSE LET lo == CHOOSE x \in S : \A y \in S : x <= y
       IN  <<lo>> \o SortedSeqOf(S \ {lo})

\* np.unique(y_train): the distinct labels, ascending
Unique(y) == SortedSeqOf({y[i] : i \in 1..Len(y)})

\* np.bincount over the label-encoded vector: occurrences of label c
CountOf(y, c) == Cardinality({i \in 1..Len(y) : y[i] = c})

\* len(y) / bincount: the number of classes forgotten
ComputeClassWeight_NoClasses(y) ==
  LET classes == Unique(y)
  IN  [j \in 1..Len(classes) |-> FDivNat(Len(y), CountOf(y, classes[j]))]

\* compute_class_weight('balanced', classes, y):
\*   len(y) / (len(classes) * bincount), a float64 per class, in class order
ComputeClassWeight(y) ==
  LET classes == Unique(y)
  IN  [j \in 1..Len(classes) |->
         FDivNat(Len(y), Len(classes) * CountOf(y, classes[j]))]

\* line 86: {i: class_weights[i] for i in range(len(class_weights))}
ClassWeightDict(y) ==
  LET w == ComputeClassWeight(y)
  IN  [i \in 0..(Len(w) - 1) |-> w[i + 1]]


\* the weight the balanced rule gives class c of y
BalancedWeight(y, c) == FDivNat(Len(y), Len(Unique(y)) * CountOf(y, c))

(***************************************************************************)
(* Datasets.  A CSV row has the 8 columns of the data set; the model lets  *)
(* one feature column (index 1) and the label column (index 7) vary.       *)
(***************************************************************************)
FeatValues == {0, 1}

MkRow(f, l) == <<0, f, 0, 0, 0, 0, 0, l>>

Rows == {MkRow(f, l) : f \in FeatValues, l \in LabelValues}

SeqsUpTo(S, n) == UNION {[1..k -> S] : k \in 0..n}

Datasets == SeqsUpTo(Rows, MaxRows)

\* the validation files: their labels reach only the fit, which is not
\* modelled, so one label value stands for them
ValidateDatasets == SeqsUpTo({MkRow(f, 0) : f \in FeatValues}, MaxRows)

\* lines 53-59 and 61-63
feature_indexes == <<1, 2, 4, 5, 6>>

label_indexes == <<7>>

\* DataFrame.iloc[:, idx]: the columns idx (0-based) of every row
ILoc(rows, idx) == [i \in 1..Len(rows) |-> [j \in 1..Len(idx) |-> rows[i][idx[j] + 1]]]

\* y.values.ravel(): the single label column as a vector
Ravel(Y) == [i \in 1..Len(Y) |-> Y[i][1]]

(***************************************************************************)
(* StandardScaler.  The fitted state is n_samples_seen_ with the column    *)
(* sums and sums of squares (which fix mean_, var_ and scale_).            *)
(***************************************************************************)
RECURSIVE SumSeq(_)
SumSeq(s) == IF s = << >> THEN 0 ELSE Head(s) + SumSeq(Tail(s))

NCols(X) == IF X = << >> THEN 0 ELSE Len(X[1])

Unfitted == [fitted |-> FALSE, n |-> 0, sum |-> << >>, sumsq |-> << >>]

\* scaler.fit(X)
Fit(X) ==
  [fitted |-> TRUE,
   n      |-> Len(X),
   sum    |-> [j \in 1..NCols(X) |-> SumSeq([i \in 1..Len(X) |-> X[i][j]])],
   sumsq  |-> [j \in 1..NCols(X) |-> SumSeq([i \in 1..Len(X) |-> X[i][j] * X[i][j]])]]

\* n^2 * var_ of column j
VarNum(sc, j) == sc.n * sc.sumsq[j] - sc.sum[j] * sc.sum[j]

\* scaler.transform(X): (x - mean_) / scale_ per column, scale_ = 1 for a
\* constant column; the value is num / sqrt(den2)
Transform(sc, X) ==
  [i \in 1..Len(X) |->
    [j \in 1..NCols(X) |->
      [num  |-> sc.n * X[i][j] - sc.sum[j],
       den2 |-> IF VarNum(sc, j) = 0 THEN sc.n * sc.n ELSE VarNum(sc, j)]]]

\* the scaler fitted again on the matrix it is asked to transform
ScaleValidation_Refit(sc, Xv) ==
  [scaler |-> Fit(Xv), out |-> Transform(Fit(Xv), Xv), fits |-> <<Xv>>]

\* line 109: scaler.transform(X_val.values) -- the scaler is used as it is
ScaleValidation(sc, Xv) == [scaler |-> sc, out |-> Transform(sc, Xv), fits |-> << >>]

(***************************************************************************)
(* The pipeline definition, lines 150-173.                                 *)
(***************************************************************************)
Tasks == {"get_data", "train_model", "upload_model"}

\* an input bound to the output of a task
Out(task, output) == [task |-> task, output |-> output]

\* an input bound to a literal path: no task produces it
Literal(path) == [task |-> "none", output |-> path]

\* the trainer given paths instead of the fetcher's outputs
TrainInputs_Literal ==
  [train_data_input_path    |-> Literal("train.csv"),
   validate_data_input_path |-> Literal("validate.csv")]

\* lines 152-157
TrainInputs ==
  [train_data_input_path    |-> Out("get_data", "train_data_output_path"),
   validate_data_input_path |-> Out("get_data", "validate_data_output_path")]

\* the uploader given the training data instead of the model
UploadInputs_Csv == [input_model_path |-> Out("get_data", "train_data_output_path")]

\* lines 158-160
UploadInputs == [input_model_path |-> Out("train_model", "model_output_path")]

\* the tasks whose outputs a task consumes
Deps(t) ==
  IF t = "train_model" THEN {TrainInputs[p].task : p \in DOMAIN TrainInputs} \cap Tasks
  ELSE IF t = "upload_model" THEN {UploadInputs[p].task : p \in DOMAIN UploadInputs} \cap Tasks
  ELSE {}

\* line 162
S3KeyValue == "models/fraud/1/model.onnx"

\* lines 164-173: secret key -> environment variable
SecretEnv == {"AWS_ACCESS_KEY_ID", "AWS_SECRET_ACCESS_KEY", "AWS_DEFAULT_REGION",
              "AWS_S3_BUCKET", "AWS_S3_ENDPOINT"}

EnvVars == SecretEnv \cup {"S3_KEY"}

\* line 204
ExperimentName == "fraud-detection"

(***************************************************************************)
(* Files.  A file is <<"none">> (absent), <<"partial">> (a download cut    *)
(* short), <<"csv", rows>>, <<"onnx", bytes>> or <<"pkl", scaler>>.        *)
(***************************************************************************)
NoFile == <<"none">>

PartialFile == <<"partial">>

ScalerPath == "artifact/scaler.pkl"

FileNames == {"train_data_output_path", "validate_data_output_path",
              "model_output_path", ScalerPath}

Exists(f) == f[1] # "none"

\* what the training run can produce (the fit itself is not modelled)
ModelBytes == {"onnx-a", "onnx-b"}

Buckets == {"bucket-a", "bucket-b"}

\* lines 15 and 19
TrainUrl == "https://raw.githubusercontent.com/rh-aiservices-bu/fraud-detection/main/data/train.csv"

ValidateUrl == "https://raw.githubusercontent.com/rh-aiservices-bu/fraud-detection/main/data/validate.csv"


(***************************************************************************)
(* The submission routine, lines 175-205: its helpers.                     *)
(***************************************************************************)
EndpointChars == {"s", "v", "c", "x"}

Endpoints == SeqsUpTo(EndpointChars, MaxEndpointLen)

Svc == <<"s", "v", "c">>

\* sub in s, for Python strings
Contains(s, sub) ==
  \E i \in 1..(Len(s) - Len(sub) + 1) : SubSeq(s, i, i + Len(sub) - 1) = sub

Whitespace == {"\n", " "}

\* str.rstrip()
RECURSIVE RStrip(_)
RStrip(s) ==
  IF s = << >> THEN s
  ELSE IF s[Len(s)] \in Whitespace THEN RStrip(SubSeq(s, 1, Len(s) - 1)) ELSE s

\* what the service-account token file can hold
TokenContents == {<<"t">>, <<"t", "\n">>, <<"t", " ", "k", "\n">>}

\* lines 179 and 189
sa_token_path == "/run/secrets/kubernetes.io/serviceaccount/token"

sa_ca_cert == "/run/secrets/kubernetes.io/serviceaccount/service-ca.crt"

\* the CA taken whenever the file is there
CaDecision_FileOnly(caExists, endpoint) == IF caExists THEN sa_ca_cert ELSE None

\* lines 190-193
CaDecision(caExists, endpoint) ==
  IF caExists /\ Contains(endpoint, Svc) THEN sa_ca_cert ELSE None

\* bearer_token given a default before the file is looked for
InitialBearerToken_Default == [bound |-> TRUE, val |-> << >>]

\* bearer_token is assigned nowhere before line 184: the name starts unbound
InitialBearerToken == [bound |-> FALSE, val |-> << >>]

RunIds == {"run-1", "run-2"}

VARIABLES
  \* the orchestration engine's view of the run
  task, started,
  \* the files of the run and who read which
  files, fileReads,
  \* get_data
  pcGet, requests,
  \* train_model
  pcTrain, X_train, y_train, X_val, y_val, scaler, fitLog, class_weights,
  X_val_scaled, valScalerUsed, model,
  \* upload_model
  pcUpload, environ, u, session, s3_resource, bucket, uploadRequests,
  \* the submission routine
  pcMain, kfEnv, tokenFile, caFileExists, kubeflow_endpoint, bearer_token,
  ssl_ca_cert, client, createRuns, result, stdout, raised

engineVars == <<task, started>>

getVars == <<pcGet, requests>>

trainVars == <<pcTrain, X_train, y_train, X_val, y_val, scaler, fitLog,
               class_weights, X_val_scaled, valScalerUsed, model>>

uploadVars == <<pcUpload, environ, u, session, s3_resource, bucket, uploadRequests>>

mainVars == <<pcMain, kfEnv, tokenFile, caFileExists, kubeflow_endpoint,
              bearer_token, ssl_ca_cert, client, createRuns, result, stdout, raised>>

vars == <<engineVars, files, fileReads, getVars, trainVars, uploadVars, mainVars>>

(***************************************************************************)
(* The orchestration engine: a task starts once, when every task whose     *)
(* output it consumes has succeeded; there is no retry (pipeline() sets    *)
(* none).                                                                  *)
(***************************************************************************)
EnvValue(v) == IF v = "S3_KEY" THEN S3KeyValue ELSE "set"

\* the contents of the secret frauddetection-storage
Secrets ==
  {[v \in SecretEnv |-> IF v = "AWS_S3_BUCKET" THEN b ELSE EnvValue(v)] : b \in Buckets}

NoEnviron == [v \in EnvVars |-> None]

StartTask(t) ==
  /\ task[t] = "pending"
  /\ \A d \in Deps(t) : task[d] = "succeeded"
  /\ task' = [task EXCEPT ![t] = "running"]
  /\ started' = Append(started, t)
  /\ pcGet' = IF t = "get_data" THEN "dl_train" ELSE pcGet
  /\ pcTrain' = IF t = "train_model" THEN "read" ELSE pcTrain
  /\ pcUpload' = IF t = "upload_model" THEN "env" ELSE pcUpload
  /\ IF t = "upload_model"
       THEN \E s \in Secrets :
              environ' = [v \in EnvVars |-> IF v = "S3_KEY" THEN S3KeyValue ELSE s[v]]
       ELSE environ' = environ
  /\ UNCHANGED <<files, fileReads, requests, X_train, y_train, X_val, y_val, scaler,
                 fitLog, class_weights, X_val_scaled, valScalerUsed, model, u, session,
                 s3_resource, bucket, uploadRequests, mainVars>>

(***************************************************************************)
(* get_data, lines 11-21.                                                  *)
(***************************************************************************)
\* a failed download swallowed: the step goes on to what follows
Download_Continue(url, path, next) ==
  /\ requests' = Append(requests, url)
  /\ \E f \in {<<"csv", d>> : d \in (IF url = TrainUrl THEN Datasets ELSE ValidateDatasets)}
              \cup {NoFile, PartialFile} :
       files' = [files EXCEPT ![path] = f]
  /\ pcGet' = next
  /\ task' = IF next = "done" THEN [task EXCEPT !["get_data"] = "succeeded"] ELSE task

\* urlretrieve either writes the whole resource or raises, leaving nothing
\* or a partial file behind
Download(url, path, next) ==
  /\ requests' = Append(requests, url)
  /\ \/ /\ \E d \in (IF url = TrainUrl THEN Datasets ELSE ValidateDatasets) :
             files' = [files EXCEPT ![path] = <<"csv", d>>]
        /\ pcGet' = next
        /\ task' = IF next = "done" THEN [task EXCEPT !["get_data"] = "succeeded"] ELSE task
     \/ /\ \E f \in {NoFile, PartialFile} : files' = [files EXCEPT ![path] = f]
        /\ pcGet' = "failed"
        /\ task' = [task EXCEPT !["get_data"] = "failed"]

\* lines 13-17
G_train ==
  /\ pcGet = "dl_train"
  /\ Download(TrainUrl, "train_data_output_path", "dl_val")
  /\ UNCHANGED <<started, fileReads, trainVars, uploadVars, mainVars>>

\* lines 18-21
G_validate ==
  /\ pcGet = "dl_val"
  /\ Download(ValidateUrl, "validate_data_output_path", "done")
  /\ UNCHANGED <<started, fileReads, trainVars, uploadVars, mainVars>>


(***************************************************************************)
(* train_model, lines 28-115.                                              *)
(***************************************************************************)
\* the file a task input is bound to
InputFile(binding) ==
  IF binding.output \in FileNames THEN files[binding.output] ELSE NoFile

IsCsv(f) == f[1] = "csv"

TrainFail ==
  /\ pcTrain' = "failed"
  /\ task' = [task EXCEPT !["train_model"] = "failed"]

\* lines 65-71: pd.read_csv of both inputs, then the column slices; a file
\* that is missing or no CSV raises
T_read ==
  /\ pcTrain = "read"
  /\ LET ft == InputFile(TrainInputs.train_data_input_path)
         fv == InputFile(TrainInputs.validate_data_input_path)
     IN  IF ~IsCsv(ft)
           THEN /\ TrainFail
                /\ fileReads' = fileReads \cup
                     {<<"train_model", TrainInputs.train_data_input_path.output>>}
                /\ UNCHANGED <<X_train, y_train, X_val, y_val>>
         ELSE IF ~IsCsv(fv)
           THEN /\ TrainFail
                /\ fileReads' = fileReads \cup
                     {<<"train_model", TrainInputs.train_data_input_path.output>>,
                      <<"train_model", TrainInputs.validate_data_input_path.output>>}
                /\ X_train' = ILoc(ft[2], feature_indexes)
                /\ y_train' = ILoc(ft[2], label_indexes)
                /\ UNCHANGED <<X_val, y_val>>
         ELSE /\ pcTrain' = "fit_scaler"
              /\ fileReads' = fileReads \cup
                   {<<"train_model", TrainInputs.train_data_input_path.output>>,
                    <<"train_model", TrainInputs.validate_data_input_path.output>>}
              /\ X_train' = ILoc(ft[2], feature_indexes)
              /\ y_train' = ILoc(ft[2], label_indexes)
              /\ X_val' = ILoc(fv[2], feature_indexes)
              /\ y_val' = ILoc(fv[2], label_indexes)
              /\ task' = task
  /\ UNCHANGED <<started, files, getVars, scaler, fitLog, class_weights, X_val_scaled,
                 valScalerUsed, model, uploadVars, mainVars>>

\* lines 76-78: scaler.fit_transform(X_train.values); sklearn raises on a
\* matrix without rows
T_fit_scaler ==
  /\ pcTrain = "fit_scaler"
  /\ IF X_train = << >>
       THEN TrainFail /\ UNCHANGED <<X_train, scaler, fitLog>>
       ELSE /\ scaler' = Fit(X_train)
            /\ fitLog' = Append(fitLog, X_train)
            /\ X_train' = Transform(Fit(X_train), X_train)
            /\ pcTrain' = "pickle"
            /\ task' = task
  /\ UNCHANGED <<started, files, fileReads, getVars, y_train, X_val, y_val, class_weights,
                 X_val_scaled, valScalerUsed, model, uploadVars, mainVars>>

\* lines 80-82: pickle.dump(scaler) to artifact/scaler.pkl
T_pickle ==
  /\ pcTrain = "pickle"
  /\ files' = [files EXCEPT ![ScalerPath] = <<"pkl", scaler>>]
  /\ pcTrain' = "weights"
  /\ UNCHANGED <<engineVars, fileReads, getVars, X_train, y_train, X_val, y_val, scaler,
                 fitLog, class_weights, X_val_scaled, valScalerUsed, model, uploadVars,
                 mainVars>>

\* lines 85-86
T_weights ==
  /\ pcTrain = "weights"
  /\ class_weights' = ClassWeightDict(Ravel(y_train))
  /\ pcTrain' = "fit_model"
  /\ UNCHANGED <<engineVars, files, fileReads, getVars, X_train, y_train, X_val, y_val,
                 scaler, fitLog, X_val_scaled, valScalerUsed, model, uploadVars, mainVars>>

\* lines 90-110: build the network and fit it; the validation features are
\* scaled by the call in line 109 (which raises on a matrix without rows);
\* the fit returns some trained model or raises
T_fit_model ==
  /\ pcTrain = "fit_model"
  /\ IF X_val = << >>
       THEN TrainFail /\ UNCHANGED <<scaler, fitLog, X_val_scaled, valScalerUsed, model>>
       ELSE LET sv == ScaleValidation(scaler, X_val)
            IN  /\ scaler' = sv.scaler
                /\ fitLog' = fitLog \o sv.fits
                /\ X_val_scaled' = sv.out
                /\ valScalerUsed' = sv.scaler
                /\ \/ /\ model' \in ModelBytes
                      /\ pcTrain' = "save"
                      /\ task' = task
                   \/ TrainFail /\ model' = model
  /\ UNCHANGED <<started, files, fileReads, getVars, X_train, y_train, X_val, y_val,
                 class_weights, uploadVars, mainVars>>

\* lines 113-115: convert to ONNX and save to model_output_path
T_save ==
  /\ pcTrain = "save"
  /\ \/ /\ files' = [files EXCEPT !["model_output_path"] = <<"onnx", model>>]
        /\ pcTrain' = "done"
        /\ task' = [task EXCEPT !["train_model"] = "succeeded"]
     \/ TrainFail /\ files' = files
  /\ UNCHANGED <<started, fileReads, getVars, X_train, y_train, X_val, y_val, scaler,
                 fitLog, class_weights, X_val_scaled, valScalerUsed, model, uploadVars,
                 mainVars>>


(***************************************************************************)
(* upload_model, lines 122-147.  The boto3 calls are modelled by what they *)
(* do with a None argument: Session() and resource() accept None (it is    *)
(* the default of each parameter: the default endpoint, the default        *)
(* region), Bucket(None) raises, and upload_file validates its key and     *)
(* signs the request before it sends anything.  The container holds no     *)
(* credentials but the two variables, and a request is taken not to be     *)
(* signable without both: the step then fails before it sends.             *)
(***************************************************************************)
NoLocals ==
  [aws_access_key_id |-> None, aws_secret_access_key |-> None, endpoint_url |-> None,
   region_name |-> None, bucket_name |-> None, s3_key |-> None]

NoSession == [built |-> FALSE, aws_access_key_id |-> None, aws_secret_access_key |-> None]

NoResource == [built |-> FALSE, endpoint_url |-> None, region_name |-> None]

NoBucket == [built |-> FALSE, name |-> None]

UploadFail ==
  /\ pcUpload' = "failed"
  /\ task' = [task EXCEPT !["upload_model"] = "failed"]

\* lines 127-133: os.environ.get of the six variables
U_env ==
  /\ pcUpload = "env"
  /\ u' = [aws_access_key_id     |-> environ["AWS_ACCESS_KEY_ID"],
           aws_secret_access_key |-> environ["AWS_SECRET_ACCESS_KEY"],
           endpoint_url          |-> environ["AWS_S3_ENDPOINT"],
           region_name           |-> environ["AWS_DEFAULT_REGION"],
           bucket_name           |-> environ["AWS_S3_BUCKET"],
           s3_key                |-> environ["S3_KEY"]]
  /\ pcUpload' = "session"
  /\ UNCHANGED <<engineVars, files, fileReads, getVars, trainVars, environ, session,
                 s3_resource, bucket, uploadRequests, mainVars>>

\* lines 135-136
U_session ==
  /\ pcUpload = "session"
  /\ session' = [built |-> TRUE, aws_access_key_id |-> u.aws_access_key_id,
                 aws_secret_access_key |-> u.aws_secret_access_key]
  /\ pcUpload' = "resource"
  /\ UNCHANGED <<engineVars, files, fileReads, getVars, trainVars, environ, u,
                 s3_resource, bucket, uploadRequests, mainVars>>

\* lines 138-142
U_resource ==
  /\ pcUpload = "resource"
  /\ s3_resource' = [built |-> TRUE, endpoint_url |-> u.endpoint_url,
                     region_name |-> u.region_name]
  /\ pcUpload' = "bucket"
  /\ UNCHANGED <<engineVars, files, fileReads, getVars, trainVars, environ, u, session,
                 bucket, uploadRequests, mainVars>>

\* line 144: a resource identifier of None raises ValueError
U_bucket ==
  /\ pcUpload = "bucket"
  /\ IF u.bucket_name = None
       THEN UploadFail /\ bucket' = bucket
       ELSE /\ bucket' = [built |-> TRUE, name |-> u.bucket_name]
            /\ pcUpload' = "upload_file"
            /\ task' = task
  /\ UNCHANGED <<started, files, fileReads, getVars, trainVars, environ, u, session,
                 s3_resource, uploadRequests, mainVars>>

\* the request upload_file sends
UploadRequest(body) ==
  [body |-> body, bucket |-> bucket.name, key |-> u.s3_key,
   endpoint_url |-> s3_resource.endpoint_url]

\* lines 146-147: bucket.upload_file(input_model_path, s3_key).  A missing
\* local file, a key of None or a missing credential raises before anything
\* is sent; otherwise the request is sent once, to the endpoint the resource
\* was built with, and the storage service accepts or rejects it
U_upload ==
  /\ pcUpload = "upload_file"
  /\ fileReads' = fileReads \cup {<<"upload_model", UploadInputs.input_model_path.output>>}
  /\ LET body == InputFile(UploadInputs.input_model_path)
         unsigned == session.aws_access_key_id = None \/ session.aws_secret_access_key = None
     IN  IF ~Exists(body) \/ u.s3_key = None \/ unsigned
           THEN UploadFail /\ uploadRequests' = uploadRequests
           ELSE /\ uploadRequests' = Append(uploadRequests, UploadRequest(body))
                /\ \/ /\ pcUpload' = "done"
                      /\ task' = [task EXCEPT !["upload_model"] = "succeeded"]
                   \/ UploadFail
  /\ UNCHANGED <<started, files, getVars, trainVars, environ, u, session, s3_resource,
                 bucket, mainVars>>

(***************************************************************************)
(* The submission routine, lines 175-205.                                  *)
(***************************************************************************)
NoClient == [built |-> FALSE, host |-> << >>, existing_token |-> << >>, ssl_ca_cert |-> "unbound"]

Raise(e) ==
  /\ pcMain' = "raised"
  /\ raised' = e

\* lines 176-177: os.environ['KUBEFLOW_ENDPOINT'] raises KeyError when unset
M_endpoint ==
  /\ pcMain = "start"
  /\ IF ~kfEnv.set
       THEN Raise("KeyError") /\ UNCHANGED <<kubeflow_endpoint, stdout>>
       ELSE /\ kubeflow_endpoint' = kfEnv.val
            /\ stdout' = Append(stdout, "connecting")
            /\ pcMain' = "token"
            /\ raised' = raised
  /\ UNCHANGED <<engineVars, files, fileReads, getVars, trainVars, uploadVars, kfEnv,
                 tokenFile, caFileExists, bearer_token, ssl_ca_cert, client, createRuns,
                 result>>

\* lines 179-184: the token is read only if the file is there
M_token ==
  /\ pcMain = "token"
  /\ bearer_token' = IF tokenFile.exists
                       THEN [bound |-> TRUE, val |-> RStrip(tokenFile.content)]
                       ELSE bearer_token
  /\ pcMain' = "ca"
  /\ UNCHANGED <<engineVars, files, fileReads, getVars, trainVars, uploadVars, kfEnv,
                 tokenFile, caFileExists, kubeflow_endpoint, ssl_ca_cert, client,
                 createRuns, result, stdout, raised>>

\* lines 189-194
M_ca ==
  /\ pcMain = "ca"
  /\ ssl_ca_cert' = CaDecision(caFileExists, kubeflow_endpoint)
  /\ stdout' = IF CaDecision(caFileExists, kubeflow_endpoint) = None
                 THEN Append(stdout, "there is no ssl_ca_cert") ELSE stdout
  /\ pcMain' = "print"
  /\ UNCHANGED <<engineVars, files, fileReads, getVars, trainVars, uploadVars, kfEnv,
                 tokenFile, caFileExists, kubeflow_endpoint, bearer_token, client,
                 createRuns, result, raised>>

\* lines 195-198: print(bearer_token) raises NameError for the unbound name
M_print ==
  /\ pcMain = "print"
  /\ IF ~bearer_token.bound
       THEN /\ Raise("NameError")
            /\ stdout' = Append(stdout, "endpoint")
       ELSE /\ stdout' = stdout \o <<"endpoint", "token", "ca">>
            /\ pcMain' = "client"
            /\ raised' = raised
  /\ UNCHANGED <<engineVars, files, fileReads, getVars, trainVars, uploadVars, kfEnv,
                 tokenFile, caFileExists, kubeflow_endpoint, bearer_token, ssl_ca_cert,
                 client, createRuns, result>>

\* lines 199-203
M_client ==
  /\ pcMain = "client"
  /\ client' = [built |-> TRUE, host |-> kubeflow_endpoint,
                existing_token |-> bearer_token.val, ssl_ca_cert |-> ssl_ca_cert]
  /\ pcMain' = "create_run"
  /\ UNCHANGED <<engineVars, files, fileReads, getVars, trainVars, uploadVars, kfEnv,
                 tokenFile, caFileExists, kubeflow_endpoint, bearer_token, ssl_ca_cert,
                 createRuns, result, stdout, raised>>

\* the request sent again when it fails
M_create_run_retry ==
  /\ pcMain = "create_run"
  /\ createRuns' = Append(createRuns,
       [experiment_name |-> ExperimentName, host |-> client.host,
        existing_token |-> client.existing_token, ssl_ca_cert |-> client.ssl_ca_cert])
  /\ \/ /\ result' \in RunIds
        /\ pcMain' = "print_run_id"
     \/ /\ result' = result
        /\ pcMain' = pcMain
  /\ UNCHANGED <<engineVars, files, fileReads, getVars, trainVars, uploadVars, kfEnv,
                 tokenFile, caFileExists, kubeflow_endpoint, bearer_token, ssl_ca_cert,
                 client, stdout, raised>>

\* line 204: one create-run request; it returns a run or raises (the
\* endpoint is unreachable, the token is rejected)
M_create_run ==
  /\ pcMain = "create_run"
  /\ createRuns' = Append(createRuns,
       [experiment_name |-> ExperimentName, host |-> client.host,
        existing_token |-> client.existing_token, ssl_ca_cert |-> client.ssl_ca_cert])
  /\ \/ /\ result' \in RunIds
        /\ pcMain' = "print_run_id"
        /\ raised' = raised
     \/ /\ Raise("ApiException")
        /\ result' = result
  /\ UNCHANGED <<engineVars, files, fileReads, getVars, trainVars, uploadVars, kfEnv,
                 tokenFile, caFileExists, kubeflow_endpoint, bearer_token, ssl_ca_cert,
                 client, stdout>>

\* line 205
M_print_run_id ==
  /\ pcMain = "print_run_id"
  /\ stdout' = Append(stdout, "run_id")
  /\ pcMain' = "done"
  /\ UNCHANGED <<engineVars, files, fileReads, getVars, trainVars, uploadVars, kfEnv,
                 tokenFile, caFileExists, kubeflow_endpoint, bearer_token, ssl_ca_cert,
                 client, createRuns, result, raised>>

(***************************************************************************)
(* Initial states and specifications.                                      *)
(***************************************************************************)
RunIdle ==
  /\ task = [t \in Tasks |-> "pending"]
  /\ started = << >>
  /\ files = [f \in FileNames |-> NoFile]
  /\ fileReads = {}
  /\ pcGet = "idle"
  /\ requests = << >>
  /\ pcTrain = "idle"
  /\ X_train = << >>
  /\ y_train = << >>
  /\ X_val = << >>
  /\ y_val = << >>
  /\ scaler = Unfitted
  /\ fitLog = << >>
  /\ class_weights = << >>
  /\ X_val_scaled = << >>
  /\ valScalerUsed = Unfitted
  /\ model = ""
  /\ pcUpload = "idle"
  /\ environ = NoEnviron
  /\ u = NoLocals
  /\ session = NoSession
  /\ s3_resource = NoResource
  /\ bucket = NoBucket
  /\ uploadRequests = << >>

MainIdle ==
  /\ pcMain = "off"
  /\ kfEnv = [set |-> FALSE, val |-> << >>]
  /\ tokenFile = [exists |-> FALSE, content |-> << >>]
  /\ caFileExists = FALSE
  /\ kubeflow_endpoint = << >>
  /\ bearer_token = InitialBearerToken
  /\ ssl_ca_cert = "unbound"
  /\ client = NoClient
  /\ createRuns = << >>
  /\ result = ""
  /\ stdout = << >>
  /\ raised = ""

\* a run of the pipeline under the engine
Init == RunIdle /\ MainIdle

Next ==
  \/ \E t \in Tasks : StartTask(t)
  \/ G_train
  \/ G_validate
  \/ T_read
  \/ T_fit_scaler
  \/ T_pickle
  \/ T_weights
  \/ T_fit_model
  \/ T_save
  \/ U_env
  \/ U_session
  \/ U_resource
  \/ U_bucket
  \/ U_upload

Spec == Init /\ [][Next]_vars

\* the submission routine, in every environment it can be started in
InitSubmit ==
  /\ RunIdle
  /\ pcMain = "start"
  /\ kfEnv \in {[set |-> FALSE, val |-> << >>]} \cup
               {[set |-> TRUE, val |-> e] : e \in Endpoints}
  /\ tokenFile \in {[exists |-> FALSE, content |-> << >>]} \cup
                   {[exists |-> TRUE, content |-> c] : c \in TokenContents}
  /\ caFileExists \in BOOLEAN
  /\ kubeflow_endpoint = << >>
  /\ bearer_token = InitialBearerToken
  /\ ssl_ca_cert = "unbound"
  /\ client = NoClient
  /\ createRuns = << >>
  /\ result = ""
  /\ stdout = << >>
  /\ raised = ""

NextSubmit ==
  \/ M_endpoint
  \/ M_token
  \/ M_ca
  \/ M_print
  \/ M_client
  \/ M_create_run
  \/ M_print_run_id

SpecSubmit == InitSubmit /\ [][NextSubmit]_vars

\* upload_model on its own, in every environment: each variable set or not
InitUpload ==
  /\ MainIdle
  /\ task = [t \in Tasks |-> IF t = "upload_model" THEN "running" ELSE "succeeded"]
  /\ started = <<"get_data", "train_model", "upload_model">>
  /\ \E m \in ModelBytes :
       /\ model = m
       /\ files = [f \in FileNames |->
                     IF f = "model_output_path" THEN <<"onnx", m>> ELSE NoFile]
  /\ fileReads = {}
  /\ pcGet = "done"
  /\ requests = << >>
  /\ pcTrain = "done"
  /\ X_train = << >>
  /\ y_train = << >>
  /\ X_val = << >>
  /\ y_val = << >>
  /\ scaler = Unfitted
  /\ fitLog = << >>
  /\ class_weights = << >>
  /\ X_val_scaled = << >>
  /\ valScalerUsed = Unfitted
  /\ pcUpload = "env"
  /\ environ \in [EnvVars -> {None, "set"}]
  /\ u = NoLocals
  /\ session = NoSession
  /\ s3_resource = NoResource
  /\ bucket = NoBucket
  /\ uploadRequests = << >>

NextUpload ==
  \/ U_env
  \/ U_session
  \/ U_resource
  \/ U_bucket
  \/ U_upload

SpecUpload == InitUpload /\ [][NextUpload]_vars

\* the class weights on their own: every short label vector, and every
\* vector of a zeros and b ones up to MaxN labels
LabelVectors ==
  {v \in SeqsUpTo(LabelValues, MaxRows) \cup
         {Zeros(a) \o Ones(b) : a \in 0..MaxN, b \in 0..MaxN} :
     Len(v) >= 1 /\ Len(v) <= MaxN}

InitWeights ==
  /\ MainIdle
  /\ task = [t \in Tasks |-> IF t = "get_data" THEN "succeeded"
                             ELSE IF t = "train_model" THEN "running" ELSE "pending"]
  /\ started = <<"get_data", "train_model">>
  /\ files = [f \in FileNames |-> NoFile]
  /\ fileReads = {}
  /\ pcGet = "done"
  /\ requests = << >>
  /\ pcTrain = "weights"
  /\ X_train = << >>
  /\ \E v \in LabelVectors :
       y_train = [i \in 1..Len(v) |-> <<v[i]>>]
  /\ X_val = << >>
  /\ y_val = << >>
  /\ scaler = Unfitted
  /\ fitLog = << >>
  /\ class_weights = << >>
  /\ X_val_scaled = << >>
  /\ valScalerUsed = Unfitted
  /\ model = ""
  /\ pcUpload = "idle"
  /\ environ = NoEnviron
  /\ u = NoLocals
  /\ session = NoSession
  /\ s3_resource = NoResource
  /\ bucket = NoBucket
  /\ uploadRequests = << >>

NextWeights == T_weights

SpecWeights == InitWeights /\ [][NextWeights]_vars

(***************************************************************************)
(* The properties.                                                         *)
(***************************************************************************)
IsPrefix(s, r) == Len(s) <= Len(r) /\ \A i \in 1..Len(s) : s[i] = r[i]

TrainFile == files["train_data_output_path"]

ValidateFile == files["validate_data_output_path"]

ModelFile == files["model_output_path"]

\* the feature matrices of the two downloaded files
TrainFeatures == ILoc(TrainFile[2], feature_indexes)

ValidateFeatures == ILoc(ValidateFile[2], feature_indexes)

\* C1: the steps start in the order get_data, train_model, upload_model;
\* train_model has started only if get_data succeeded and both of its files
\* exist, upload_model only if train_model succeeded and the model file
\* exists; and nothing is uploaded unless both earlier steps succeeded.
C1_StepsInOrder ==
  /\ IsPrefix(started, <<"get_data", "train_model", "upload_model">>)
  /\ task["train_model"] # "pending" =>
       /\ task["get_data"] = "succeeded"
       /\ IsCsv(TrainFile)
       /\ IsCsv(ValidateFile)
  /\ task["upload_model"] # "pending" =>
       /\ task["train_model"] = "succeeded"
       /\ ModelFile[1] = "onnx"
  /\ uploadRequests # << >> =>
       task["get_data"] = "succeeded" /\ task["train_model"] = "succeeded"

\* the whole chain ran and the model was uploaded
C1_Witness == task["upload_model"] = "succeeded" /\ uploadRequests # << >>

\* C2: with any of the six variables missing, upload_model fails and sends
\* no upload request.
C2_FailsBeforeRequest ==
  (\E v \in EnvVars : environ[v] = None) =>
    uploadRequests = << >> /\ pcUpload # "done"

\* C3: the client is built with the service-account CA exactly when the CA
\* file exists and the endpoint contains "svc"; otherwise with no CA.
C3_CaOnlyInCluster ==
  client.built =>
    /\ client.ssl_ca_cert = "/run/secrets/kubernetes.io/serviceaccount/service-ca.crt"
         <=> (caFileExists /\ Contains(kfEnv.val, <<"s", "v", "c">>))
    /\ ~(caFileExists /\ Contains(kfEnv.val, <<"s", "v", "c">>))
         => client.ssl_ca_cert = None

\* a client built without CA although the CA file is there
C3_Witness ==
  /\ client.built
  /\ caFileExists
  /\ ~Contains(kfEnv.val, Svc)
  /\ client.ssl_ca_cert = None

\* C4: without the token file no client is built and no create-run request
\* is sent, and the routine cannot get past printing the token: it raises.
C4_NoTokenNoRun ==
  ~tokenFile.exists =>
    /\ ~client.built
    /\ createRuns = << >>
    /\ pcMain \in {"start", "token", "ca", "print", "raised"}
    /\ pcMain = "raised" => raised \in {"KeyError", "NameError"}
    /\ (pcMain = "raised" /\ kfEnv.set) => raised = "NameError"

\* the routine has raised for the missing token
C4_Witness ==
  /\ ~tokenFile.exists
  /\ pcMain = "raised"
  /\ raised = "NameError"
  /\ ssl_ca_cert # "unbound"

\* C5: the scaler is fitted once, on the training features; the state that
\* scales the validation features and the state pickled to
\* artifact/scaler.pkl are that fit's.
C5_ScalerFitOnTrainOnly ==
  /\ Len(fitLog) <= 1
  /\ fitLog # << >> => IsCsv(TrainFile) /\ fitLog = <<TrainFeatures>>
  /\ scaler.fitted => scaler = Fit(TrainFeatures)
  /\ files[ScalerPath][1] = "pkl" => files[ScalerPath][2] = Fit(TrainFeatures)
  /\ valScalerUsed.fitted =>
       /\ valScalerUsed = Fit(TrainFeatures)
       /\ X_val_scaled = Transform(Fit(TrainFeatures), ValidateFeatures)
       /\ files[ScalerPath] = <<"pkl", Fit(TrainFeatures)>>
  /\ pcTrain \in {"save", "done"} => valScalerUsed.fitted /\ Len(fitLog) = 1

\* training finished on data whose validation features would fit differently
C5_Witness ==
  /\ pcTrain = "done"
  /\ Fit(ValidateFeatures) # Fit(TrainFeatures)
  /\ valScalerUsed = Fit(TrainFeatures)

\* the labels of the training vector and the classes present
TrainLabels == Ravel(y_train)

RECURSIVE FloatSum(_)
FloatSum(s) == IF s = << >> THEN FloatOfNat(0) ELSE FAdd(FloatSum(SubSeq(s, 1, Len(s) - 1)), s[Len(s)])

\* sum over the classes present of weight[c] * count[c], in float64; the
\* weight of the j-th class is the j-th weight computed
WeightedCount ==
  FloatSum([j \in 1..Len(Unique(TrainLabels)) |->
              FMulNat(class_weights[j - 1], CountOf(TrainLabels, Unique(TrainLabels)[j]))])

WeightsComputed == pcTrain \in {"fit_model", "save", "done"} /\ TrainLabels # << >>

\* C6 as stated: the weighted count is exactly the number of samples.
C6_WeightedCountExact ==
  WeightsComputed => WeightedCount = FloatOfNat(Len(TrainLabels))

\* C6, amended: the weighted count is the number of samples up to the
\* rounding of float64, within a relative error of 2^-40.
C6_WeightedCountApprox ==
  WeightsComputed =>
    /\ DOMAIN class_weights = 0..(Len(Unique(TrainLabels)) - 1)
    /\ WithinRelTol(WeightedCount, Len(TrainLabels), 40)

\* weights whose weighted count is not exactly the number of samples
C6_Witness ==
  /\ WeightsComputed
  /\ Len(Unique(TrainLabels)) = 2
  /\ WeightedCount # FloatOfNat(Len(TrainLabels))

\* C7: at most one upload request, exactly one once the step has ended; it
\* carries the model file train_model wrote, to the bucket of
\* AWS_S3_BUCKET under the key models/fraud/1/model.onnx; upload_model reads
\* the model file only and nobody reads artifact/scaler.pkl.
C7_OneUploadOfTheModel ==
  /\ Len(uploadRequests) <= 1
  /\ pcUpload \in {"done", "failed"} => Len(uploadRequests) = 1
  /\ task["upload_model"] = "succeeded" <=> pcUpload = "done"
  /\ \A i \in 1..Len(uploadRequests) :
       /\ uploadRequests[i].body[1] = "onnx"
       /\ uploadRequests[i].body[2] = model
       /\ uploadRequests[i].body = ModelFile
       /\ pcTrain = "done"
       /\ uploadRequests[i].bucket = environ["AWS_S3_BUCKET"]
       /\ uploadRequests[i].bucket \in Buckets
       /\ uploadRequests[i].key = "models/fraud/1/model.onnx"
  /\ \A r \in fileReads :
       /\ r[2] # ScalerPath
       /\ r[1] = "upload_model" => r[2] = "model_output_path"

\* the upload succeeded in a run that also wrote the scaler file
C7_Witness ==
  /\ task["upload_model"] = "succeeded"
  /\ files[ScalerPath][1] = "pkl"
  /\ Len(uploadRequests) = 1

\* C8: at most one create-run request, exactly one once it has returned;
\* it is tagged fraud-detection and carries the token and the CA decided
\* before; the routine then prints the run id and is done.
C8_OneCreateRun ==
  /\ Len(createRuns) <= 1
  /\ pcMain \in {"print_run_id", "done"} => Len(createRuns) = 1 /\ result \in RunIds
  /\ \A i \in 1..Len(createRuns) :
       /\ createRuns[i].experiment_name = "fraud-detection"
       /\ bearer_token.bound
       /\ ssl_ca_cert # "unbound"
       /\ createRuns[i].existing_token = bearer_token.val
       /\ createRuns[i].ssl_ca_cert = ssl_ca_cert
       /\ createRuns[i].host = kfEnv.val
       /\ pcMain \in {"print_run_id", "done", "raised"}
  /\ pcMain = "done" => stdout[Len(stdout)] = "run_id"
  /\ (pcMain = "raised" /\ createRuns # << >>) => raised = "ApiException"

\* the run was created and its id printed
C8_Witness == pcMain = "done" /\ Len(createRuns) = 1

\* C9: get_data requests the training URL, then the validation URL, each at
\* most once; a failed download fails the step there and then, so a failed
\* training download leaves the validation URL unrequested; the step
\* succeeds only with both files written.
C9_DownloadsInOrderNoRetry ==
  /\ IsPrefix(requests, <<TrainUrl, ValidateUrl>>)
  /\ (Len(requests) >= 1 /\ ~IsCsv(TrainFile)) =>
       /\ requests = <<TrainUrl>>
       /\ pcGet = "failed"
  /\ (Len(requests) = 2 /\ ~IsCsv(ValidateFile)) => pcGet = "failed"
  /\ pcGet = "failed" => task["get_data"] = "failed"
  /\ task["get_data"] = "succeeded" <=> pcGet = "done"
  /\ task["get_data"] = "succeeded" =>
       /\ requests = <<TrainUrl, ValidateUrl>>
       /\ IsCsv(TrainFile)
       /\ IsCsv(ValidateFile)

\* the training download failed and the step stopped there
C9_Witness ==
  /\ pcGet = "failed"
  /\ requests = <<TrainUrl>>
  /\ task["get_data"] = "failed"

\* C10: every label present in the training labels is a key of the weight
\* dictionary handed to the fit, and its value is that label's balanced
\* weight.
C10_WeightKeyedByLabel ==
  WeightsComputed =>
    \A c \in {TrainLabels[i] : i \in 1..Len(TrainLabels)} :
      /\ c \in DOMAIN class_weights
      /\ class_weights[c] = BalancedWeight(TrainLabels, c)

=============================================================================
